---------------------------- MODULE Spec2Model ----------------------------
(***************************************************************************)
(* State-machine model of two services of meltano:                         *)
(*                                                                         *)
(*   JobLoggingService  (src/meltano/core/logging/job_logging_service.py)  *)
(*   PluginLock / PluginLockService (src/meltano/core/plugin_lock_service) *)
(*                                                                         *)
(* The file system is part of the state.  Every operation of a service is  *)
(* a small sequential process whose steps are the system calls the code    *)
(* makes, in the order it makes them.  Two schedules are specified for     *)
(* each service: the single-threaded one the services are written for (a   *)
(* call starts only when no other call is in progress), and the racing one *)
(* in which the steps of different callers interleave.                     *)
(***************************************************************************)
EXTENDS Integers, Sequences, FiniteSets, TLC

VARIABLES
    fs,         \* log files on disk: path -> file record
    legacyDir,  \* whether <project>/run/elt/<slug(state_id)> exists
    clock,      \* the file system's clock (st_ctime_ns source)
    lg,         \* create_log scopes, one per run_id
    rd,         \* the caller of get_latest_log / get_downloadable_log
    dl,         \* the caller of delete_all_logs
    lockfiles,  \* plugin lockfiles on disk: lock path -> file
    sv,         \* callers of PluginLockService.save
    ld,         \* the caller of PluginLock.load
    lastSaved   \* per lock path, the plugin PluginLock.save wrote last

logVars == <<fs, legacyDir, clock, lg, rd, dl>>

lockVars == <<lockfiles, sv, ld, lastSaved>>

vars == <<fs, legacyDir, clock, lg, rd, dl, lockfiles, sv, ld, lastSaved>>

(***************************************************************************)
(* Bounds and program constants                                            *)
(***************************************************************************)
MAX_FILE_SIZE == 2097152

\* Number of file modifications (open-for-write, write) a behaviour may make.
MaxClock == 4

\* run_ids of the one state_id under study.
Runs == {1, 2}

\* Sizes of the chunks a caller writes to a log sink.
Chunks == {1, MAX_FILE_SIZE}

\* Largest log the model grows.
MaxSize == MAX_FILE_SIZE + 1

(***************************************************************************)
(* Paths.  A log path is <<root, run_id>>: "logs" is                       *)
(* <project>/logs/elt/<state_id>/<run_id>/elt.log, "run" is a log left by  *)
(* the legacy layout <project>/run/elt/<slug(state_id)>/<run_id>/elt.log.  *)
(***************************************************************************)
generate_log_name(run_id) == <<"logs", run_id>>

PrimaryPaths == {generate_log_name(r) : r \in Runs}

LegacyPaths == {<<"run", 0>>}

Paths == PrimaryPaths \cup LegacyPaths

\* A file: created is the time the file was created (its birth time, which
\* also tells one file at a path from a later one), ctime is st_ctime_ns as
\* POSIX systems report it: the time of the last change to the inode, which
\* a truncation and every write advance.
NoFile == [exists |-> FALSE, created |-> 0, ctime |-> 0, size |-> 0]

Exists(f, p) == f[p].exists

SeqToSet(s) == {s[i] : i \in 1..Len(s)}


(***************************************************************************)
(* Directory discovery and get_all_logs                                    *)
(***************************************************************************)
\* legacy_logs_dir: the legacy directory, or none when it does not exist.
legacy_logs_dir(legacy) == IF legacy THEN <<"run">> ELSE <<>>

\* Variant of logs_dirs that forgets the legacy directory.
logs_dirs_PrimaryOnly(legacy) == <<"logs">>

\* logs_dirs: the primary directory, then the legacy one if it exists.
logs_dirs(legacy) == <<"logs">> \o legacy_logs_dir(legacy)

\* The order in which a directory traversal meets the paths.
GlobOrder == <<generate_log_name(1), generate_log_name(2), <<"run", 0>>>>

RECURSIVE GlobDirs(_, _)
\* [log_file for logs_dir in dirs for log_file in logs_dir.glob("**/*.log")]
GlobDirs(f, dirs) ==
    IF dirs = <<>> THEN <<>>
    ELSE SelectSeq(GlobOrder, LAMBDA p : p[1] = Head(dirs) /\ Exists(f, p))
         \o GlobDirs(f, Tail(dirs))

Glob(f, legacy) == GlobDirs(f, logs_dirs(legacy))

RECURSIVE InsertDesc(_, _)
\* Place entry e in a list sorted by key descending, after every entry whose
\* key is not smaller (the sort is stable).
InsertDesc(sorted, e) ==
    IF sorted = <<>> THEN <<e>>
    ELSE IF Head(sorted).key >= e.key
         THEN <<Head(sorted)>> \o InsertDesc(Tail(sorted), e)
         ELSE <<e>> \o sorted

RECURSIVE SortFrom(_, _, _)
SortFrom(paths, keys, acc) ==
    IF paths = <<>> THEN acc
    ELSE SortFrom(Tail(paths), Tail(keys),
                  InsertDesc(acc, [path |-> Head(paths), key |-> Head(keys)]))

\* sorted(paths, key=st_ctime_ns, reverse=True)
SortedByKey(paths, keys) ==
    LET s == SortFrom(paths, keys, <<>>) IN [i \in 1..Len(s) |-> s[i].path]

\* get_all_logs on a file system nobody else changes meanwhile.
get_all_logs(f, legacy) ==
    LET found == Glob(f, legacy)
    IN  SortedByKey(found, [i \in 1..Len(found) |-> f[found[i]].ctime])

\* Variant of the size check with >= for >.
ExceedsThreshold_AtLeast(size) == size >= MAX_FILE_SIZE

\* latest_log.stat().st_size > MAX_FILE_SIZE
ExceedsThreshold(size) == size > MAX_FILE_SIZE

\* f.read(): the whole content of the log, named by its path and length.
ReadAll(f, p) == [log |-> p, bytes |-> f[p].size]

(***************************************************************************)
(* State after construction                                                *)
(***************************************************************************)
LgIdle == [pc |-> "idle", sink |-> "none", ino |-> 0, yields |-> 0,
           open |-> {}, raised |-> "none", outcome |-> "none",
           cannotOpen |-> FALSE, discarded |-> FALSE]

RdIdle == [pc |-> "idle", op |-> "none", globbed |-> <<>>, keys |-> <<>>,
           latest |-> <<>>, newest |-> <<>>,
           gone |-> FALSE, outcome |-> "none", result |-> <<>>]

DlIdle == [pc |-> "idle", found |-> <<>>, todo |-> <<>>, outcome |-> "none"]

\* A project may hold a log written under the legacy layout.
LegacyLog == [exists |-> TRUE, created |-> 0, ctime |-> 0, size |-> 1]

LogInit ==
    /\ legacyDir \in BOOLEAN
    /\ \E old \in (IF legacyDir THEN {NoFile, LegacyLog} ELSE {NoFile}) :
          fs = [p \in Paths |-> IF p \in LegacyPaths THEN old ELSE NoFile]
    /\ clock = 1
    /\ lg = [r \in Runs |-> LgIdle]
    /\ rd = RdIdle
    /\ dl = DlIdle

(***************************************************************************)
(* create_log: a generator-based context manager                           *)
(***************************************************************************)
Tick == clock' = clock + 1

\* open(log_file_name, "w"): create the file, or truncate the existing one.
OpenForWrite(f, p, now) ==
    [f EXCEPT ![p] = [exists |-> TRUE,
                      created |-> IF f[p].exists THEN f[p].created ELSE now,
                      ctime |-> now, size |-> 0]]

\* The handle of scope r still names the file at its path (it was not
\* unlinked since the open).
Linked(r) ==
    LET p == generate_log_name(r)
    IN  Exists(fs, p) /\ fs[p].created = lg[r].ino

\* The makedirs decorator of logs_dir: creating the directories of the
\* path fails with an OSError when the file system refuses.
MakedirsRaises(env) == env = "mkdir_fails"

\* Entering the scope.  env is what the file system does: "ok", the
\* directory cannot be created ("mkdir_fails"), or the file cannot be
\* opened ("open_fails": open raises OSError).
LgEnter(r, env) ==
    /\ lg[r].pc = "idle"
    /\ CASE MakedirsRaises(env) ->
              \* generate_log_name runs before the try block
              /\ lg' = [lg EXCEPT ![r] = [LgIdle EXCEPT !.pc = "done",
                                            !.outcome = "OSError",
                                            !.cannotOpen = TRUE]]
              /\ UNCHANGED <<fs, clock>>
         [] env = "open_fails" ->
              \* except OSError: log, open os.devnull, yield it
              /\ lg' = [lg EXCEPT ![r] = [LgIdle EXCEPT !.pc = "block",
                                            !.sink = "devnull",
                                            !.yields = 1,
                                            !.open = {"devnull"},
                                            !.cannotOpen = TRUE]]
              /\ UNCHANGED <<fs, clock>>
         [] env = "ok" ->
              /\ clock <= MaxClock
              /\ fs' = OpenForWrite(fs, generate_log_name(r), clock)
              /\ Tick
              /\ lg' = [lg EXCEPT ![r] = [LgIdle EXCEPT !.pc = "block",
                                            !.sink = "file",
                                            !.ino = fs'[generate_log_name(r)].created,
                                            !.yields = 1,
                                            !.open = {"file"}]]
    /\ UNCHANGED <<legacyDir, rd, dl, lockVars>>

\* The caller's block writes a chunk to the sink it was given.
LgWrite(r, chunk) ==
    /\ lg[r].pc = "block"
    /\ IF lg[r].sink = "file" /\ Linked(r)
       THEN LET p == generate_log_name(r)
            IN  /\ clock <= MaxClock
                /\ fs[p].size + chunk <= MaxSize
                /\ fs' = [fs EXCEPT ![p].size = @ + chunk, ![p].ctime = clock]
                /\ Tick
                /\ UNCHANGED lg
       ELSE \* os.devnull, or a file unlinked meanwhile: the write succeeds
            \* and no path changes
            /\ lg' = [lg EXCEPT ![r].discarded = TRUE]
            /\ UNCHANGED <<fs, clock>>
    /\ UNCHANGED <<legacyDir, rd, dl, lockVars>>

\* Leaving the scope: the block returns ("none") or raises an OSError or
\* another exception ("Other"), which contextmanager throws into the
\* generator at its yield.
LgExit(r, exc) ==
    /\ lg[r].pc = "block"
    /\ \E closed \in BOOLEAN :
         lg' = [lg EXCEPT ![r] =
            IF lg[r].sink = "file" /\ exc = "OSError"
            THEN \* the with block closes the file, except OSError catches
                 \* the caller's error, opens os.devnull and yields again:
                 \* "generator didn't stop after throw()".  Whether the
                 \* runtime then closes the generator (and os.devnull with
                 \* it) depends on its version.
                 [@ EXCEPT !.pc = "done", !.raised = exc,
                           !.outcome = "RuntimeError", !.yields = 2,
                           !.open = IF closed THEN {} ELSE {"devnull"}]
            ELSE [@ EXCEPT !.pc = "done", !.raised = exc,
                           !.outcome = IF exc = "none" THEN "ok" ELSE exc,
                           !.open = {}]]
    /\ UNCHANGED <<fs, legacyDir, clock, rd, dl, lockVars>>

\* The caller has the outcome of the scope.
LgReturn(r) ==
    /\ lg[r].pc = "done"
    /\ lg' = [lg EXCEPT ![r] = LgIdle]
    /\ UNCHANGED <<fs, legacyDir, clock, rd, dl, lockVars>>

(***************************************************************************)
(* get_latest_log / get_downloadable_log                                   *)
(***************************************************************************)
\* The path whose st_ctime is largest among those a scan found.
Newest(f, found) ==
    IF found = <<>> THEN <<>>
    ELSE CHOOSE p \in SeqToSet(found) :
            \A q \in SeqToSet(found) : f[q].ctime <= f[p].ctime

RdCall(op) ==
    /\ rd.pc = "idle"
    /\ rd' = [RdIdle EXCEPT !.pc = "glob", !.op = op]
    /\ UNCHANGED <<fs, legacyDir, clock, lg, dl, lockVars>>

\* get_all_logs: the directory traversal.
RdGlob ==
    /\ rd.pc = "glob"
    /\ LET found == Glob(fs, legacyDir)
       IN  rd' = [rd EXCEPT !.pc = "sort", !.globbed = found,
                            !.newest = Newest(fs, found)]
    /\ UNCHANGED <<fs, legacyDir, clock, lg, dl, lockVars>>

\* get_all_logs: sorted() computes the key of the next path, os.stat(path).
\* A path removed since the traversal raises FileNotFoundError out of
\* get_all_logs; the handler formats latest_log, which is not bound yet.
RdSortKey ==
    /\ rd.pc = "sort"
    /\ Len(rd.keys) < Len(rd.globbed)
    /\ LET p == rd.globbed[Len(rd.keys) + 1]
       IN  IF Exists(fs, p)
           THEN rd' = [rd EXCEPT !.keys = Append(@, fs[p].ctime)]
           ELSE rd' = [rd EXCEPT !.pc = "done",
                                 !.gone = (p = rd.newest),
                                 !.outcome = "UnboundLocalError"]
    /\ UNCHANGED <<fs, legacyDir, clock, lg, dl, lockVars>>

\* next(iter(get_all_logs(state_id)))
RdSorted ==
    /\ rd.pc = "sort"
    /\ Len(rd.keys) = Len(rd.globbed)
    /\ LET logs == SortedByKey(rd.globbed, rd.keys)
       IN  IF logs = <<>>
           THEN rd' = [rd EXCEPT !.pc = "done",
                                 !.outcome = "MissingJobLogException"]
           ELSE rd' = [rd EXCEPT !.latest = logs[1],
                                 !.pc = IF rd.op = "get_latest_log"
                                        THEN "stat" ELSE "resolve"]
    /\ UNCHANGED <<fs, legacyDir, clock, lg, dl, lockVars>>

\* get_latest_log: latest_log.stat().st_size > MAX_FILE_SIZE
RdStatSize ==
    /\ rd.pc = "stat"
    /\ IF ~Exists(fs, rd.latest)
       THEN rd' = [rd EXCEPT !.pc = "done", !.gone = TRUE,
                             !.outcome = "MissingJobLogException"]
       ELSE IF ExceedsThreshold(fs[rd.latest].size)
            THEN rd' = [rd EXCEPT !.pc = "done",
                                  !.outcome = "SizeThresholdJobLogException"]
            ELSE rd' = [rd EXCEPT !.pc = "read"]
    /\ UNCHANGED <<fs, legacyDir, clock, lg, dl, lockVars>>

\* get_latest_log: with latest_log.open() as f: return f.read()
RdRead ==
    /\ rd.pc = "read"
    /\ IF ~Exists(fs, rd.latest)
       THEN rd' = [rd EXCEPT !.pc = "done", !.gone = TRUE,
                             !.outcome = "MissingJobLogException"]
       ELSE rd' = [rd EXCEPT !.pc = "done", !.outcome = "returned",
                             !.result = ReadAll(fs, rd.latest)]
    /\ UNCHANGED <<fs, legacyDir, clock, lg, dl, lockVars>>

\* get_downloadable_log: str(latest_log.resolve()).  resolve() is not
\* strict: it makes the path absolute whether or not the file exists.
RdResolve ==
    /\ rd.pc = "resolve"
    /\ rd' = [rd EXCEPT !.pc = "done", !.outcome = "returned",
                        !.result = rd.latest,
                        !.gone = ~Exists(fs, rd.latest)]
    /\ UNCHANGED <<fs, legacyDir, clock, lg, dl, lockVars>>

\* The caller has the result or the exception.
RdReturn ==
    /\ rd.pc = "done"
    /\ rd' = RdIdle
    /\ UNCHANGED <<fs, legacyDir, clock, lg, dl, lockVars>>

(***************************************************************************)
(* delete_all_logs                                                         *)
(***************************************************************************)
DlCall ==
    /\ dl.pc = "idle"
    /\ dl' = [DlIdle EXCEPT !.pc = "scan"]
    /\ UNCHANGED <<fs, legacyDir, clock, lg, rd, lockVars>>

\* for log_path in self.get_all_logs(state_id).  No other caller removes
\* files while this one scans, so the scan is one step.
DlScan ==
    /\ dl.pc = "scan"
    /\ LET logs == get_all_logs(fs, legacyDir)
       IN  dl' = [dl EXCEPT !.pc = "unlink", !.found = logs, !.todo = logs]
    /\ UNCHANGED <<fs, legacyDir, clock, lg, rd, lockVars>>

\* log_path.unlink(): removes the file, or fails (env = "fails": the file
\* system refuses) and the error propagates with the rest left in place.
DlUnlink(env) ==
    /\ dl.pc = "unlink"
    /\ dl.todo # <<>>
    /\ IF env = "ok" /\ Exists(fs, Head(dl.todo))
       THEN /\ fs' = [fs EXCEPT ![Head(dl.todo)] = NoFile]
            /\ dl' = [dl EXCEPT !.todo = Tail(@)]
       ELSE /\ dl' = [dl EXCEPT !.pc = "done",
                                !.outcome = IF env = "ok"
                                            THEN "FileNotFoundError"
                                            ELSE "OSError"]
            /\ UNCHANGED fs
    /\ UNCHANGED <<legacyDir, clock, lg, rd, lockVars>>

\* The loop is over.
DlDone ==
    /\ dl.pc = "unlink"
    /\ dl.todo = <<>>
    /\ dl' = [dl EXCEPT !.pc = "done", !.outcome = "ok"]
    /\ UNCHANGED <<fs, legacyDir, clock, lg, rd, lockVars>>

\* The caller has the outcome.
DlReturn ==
    /\ dl.pc = "done"
    /\ dl' = DlIdle
    /\ UNCHANGED <<fs, legacyDir, clock, lg, rd, lockVars>>

(***************************************************************************)
(* Schedules of the job log service                                        *)
(***************************************************************************)
\* No call of the service is in progress (a create_log scope may be open:
\* its block is the caller's own code).
LogsQuiescent ==
    /\ rd.pc = "idle"
    /\ dl.pc = "idle"
    /\ \A r \in Runs : lg[r].pc # "done"

LogsStep ==
    \/ RdGlob
    \/ RdSortKey
    \/ RdSorted
    \/ RdStatSize
    \/ RdRead
    \/ RdResolve
    \/ DlScan
    \/ \E env \in {"ok", "fails"} : DlUnlink(env)
    \/ DlDone
    \/ DlReturn
    \/ RdReturn
    \/ \E r \in Runs : LgReturn(r)

SeqLgEnter ==
    /\ LogsQuiescent
    /\ \E r \in Runs, env \in {"ok", "mkdir_fails", "open_fails"} : LgEnter(r, env)

SeqLgWrite == LogsQuiescent /\ \E r \in Runs, chunk \in Chunks : LgWrite(r, chunk)

SeqLgExit ==
    /\ LogsQuiescent
    /\ \E r \in Runs, exc \in {"none", "OSError", "Other"} : LgExit(r, exc)

SeqRdCall ==
    /\ LogsQuiescent
    /\ \E op \in {"get_latest_log", "get_downloadable_log"} : RdCall(op)

SeqDlCall == LogsQuiescent /\ DlCall

\* The single-threaded schedule: a call starts when no other is in progress.
NextLogs ==
    \/ SeqLgEnter
    \/ SeqLgWrite
    \/ SeqLgExit
    \/ SeqRdCall
    \/ SeqDlCall
    \/ LogsStep

\* The racing schedule: callers in different threads or processes, whose
\* steps interleave.  One run logs, on a healthy file system, while one
\* caller reads and another deletes.
LogsCallRace ==
    \/ LgEnter(1, "ok")
    \/ LgWrite(1, 1)
    \/ LgExit(1, "none")
    \/ \E op \in {"get_latest_log", "get_downloadable_log"} : RdCall(op)
    \/ DlCall

NextLogsRace == LogsCallRace \/ LogsStep

(***************************************************************************)
(* Plugins and the lockfile format                                         *)
(***************************************************************************)
Variants == {"v1", "v2"}

\* What a variant of the plugin definition pins (its pip_url).
Urls == {"a", "b"}

\* A plugin definition: its variant registry.
Definitions == [Variants -> Urls]

\* A project plugin: its definition and the name of the variant it uses.
ProjectPlugins == [definition : Definitions, variant : Variants]

NoPlugin == [definition |-> [v \in Variants |-> "none"], variant |-> "none"]

\* definition.find_variant(plugin.variant)
find_variant(definition, name) == [name |-> name, pip_url |-> definition[name]]

\* project.plugin_lock_path(type, name, variant_name=...)
plugin_lock_path(type, name, variant_name) == <<type, name, variant_name>>

\* PluginLock.__init__: the path of the lock of a plugin.
PluginLockPath(plugin) ==
    plugin_lock_path("extractors", "tap",
                     find_variant(plugin.definition, plugin.variant).name)

LockPaths == {plugin_lock_path("extractors", "tap", v) : v \in Variants}

\* StandalonePlugin.from_variant(variant, definition).canonical()
Canonical(variant) ==
    [plugin_type |-> "extractors", name |-> "tap",
     variant |-> variant.name, pip_url |-> variant.pip_url]

\* json.dump(mapping, lockfile, indent=2): the text, as its key/value lines.
JsonDump(m) ==
    << <<"plugin_type", m.plugin_type>>, <<"name", m.name>>,
       <<"variant", m.variant>>, <<"pip_url", m.pip_url>> >>

\* The value of a key of a JSON object text.
JsonGet(text, key) ==
    text[CHOOSE i \in 1..Len(text) : text[i][1] = key][2]

\* StandalonePlugin(**json.load(x)), in canonical form.
DefaultLoader(text) ==
    [plugin_type |-> JsonGet(text, "plugin_type"),
     name |-> JsonGet(text, "name"),
     variant |-> JsonGet(text, "variant"),
     pip_url |-> JsonGet(text, "pip_url")]

Absent == [exists |-> FALSE, bytes |-> <<>>]

LockFile(bytes) == [exists |-> TRUE, bytes |-> bytes]

\* The bytes PluginLock.save writes for a plugin.
LockBytes(plugin) ==
    JsonDump(Canonical(find_variant(plugin.definition, plugin.variant)))

\* Variant of PluginLock.save that opens with mode "x": an existing file
\* is kept.
PluginLockSave_Exclusive(files, plugin) ==
    IF files[PluginLockPath(plugin)].exists THEN files
    ELSE [files EXCEPT ![PluginLockPath(plugin)] = LockFile(LockBytes(plugin))]

\* PluginLock.save: open(path, "w") and dump; any content is overwritten.
PluginLockSave(files, plugin) ==
    [files EXCEPT ![PluginLockPath(plugin)] = LockFile(LockBytes(plugin))]

\* A lockfile as a project may hold it: written by save, or edited by hand
\* (pip_url "m").
FilesAt(path) ==
    {Absent} \cup
    {LockFile(JsonDump([plugin_type |-> path[1], name |-> path[2],
                        variant |-> path[3], pip_url |-> u])) :
        u \in Urls \cup {"m"}}

SvIdle == [pc |-> "idle", plugin |-> NoPlugin, exists_ok |-> FALSE,
           before |-> Absent, existed |-> FALSE, outcome |-> "none",
           err |-> <<>>]

LdIdle == [pc |-> "idle", plugin |-> NoPlugin, create |-> FALSE,
           loader |-> "none", before |-> Absent, outcome |-> "none",
           result |-> <<>>]

Savers == {1, 2}

LockInit ==
    /\ lockfiles \in [LockPaths -> UNION {FilesAt(p) : p \in LockPaths}]
    /\ \A p \in LockPaths : lockfiles[p] \in FilesAt(p)
    /\ sv = [i \in Savers |-> SvIdle]
    /\ ld = LdIdle
    /\ lastSaved = [p \in LockPaths |-> NoPlugin]

(***************************************************************************)
(* PluginLockService.save                                                  *)
(***************************************************************************)
\* before: the file at the lock path when the call is made (kept to state
\* the properties; the code does not read it).
SvCall(i, plugin, exists_ok) ==
    /\ sv[i].pc = "idle"
    /\ sv' = [sv EXCEPT ![i] = [SvIdle EXCEPT !.pc = "check",
                                  !.plugin = plugin,
                                  !.exists_ok = exists_ok,
                                  !.before = lockfiles[PluginLockPath(plugin)]]]
    /\ UNCHANGED <<lockfiles, ld, lastSaved, logVars>>

\* Variant of the check that raises for an existing file whatever
\* exists_ok is.
SvCheck_IgnoresExistsOk(i) ==
    /\ sv[i].pc = "check"
    /\ LET path == PluginLockPath(sv[i].plugin)
       IN  IF lockfiles[path].exists
           THEN sv' = [sv EXCEPT ![i].pc = "done", ![i].existed = TRUE,
                                 ![i].outcome = "LockfileAlreadyExistsError",
                                 ![i].err = <<path, sv[i].plugin>>]
           ELSE sv' = [sv EXCEPT ![i].pc = "write",
                                 ![i].existed = lockfiles[path].exists]
    /\ UNCHANGED <<lockfiles, ld, lastSaved, logVars>>

\* if plugin_lock.path.exists() and not exists_ok: raise
SvCheck(i) ==
    /\ sv[i].pc = "check"
    /\ LET path == PluginLockPath(sv[i].plugin)
       IN  IF lockfiles[path].exists /\ ~sv[i].exists_ok
           THEN sv' = [sv EXCEPT ![i].pc = "done", ![i].existed = TRUE,
                                 ![i].outcome = "LockfileAlreadyExistsError",
                                 ![i].err = <<path, sv[i].plugin>>]
           ELSE sv' = [sv EXCEPT ![i].pc = "write",
                                 ![i].existed = lockfiles[path].exists]
    /\ UNCHANGED <<lockfiles, ld, lastSaved, logVars>>

\* plugin_lock.save()
SvWrite(i) ==
    /\ sv[i].pc = "write"
    /\ lockfiles' = PluginLockSave(lockfiles, sv[i].plugin)
    /\ lastSaved' = [lastSaved EXCEPT ![PluginLockPath(sv[i].plugin)] =
                                          sv[i].plugin]
    /\ sv' = [sv EXCEPT ![i].pc = "done", ![i].outcome = "ok"]
    /\ UNCHANGED <<ld, logVars>>

\* The caller has the outcome.
SvReturn(i) ==
    /\ sv[i].pc = "done"
    /\ sv' = [sv EXCEPT ![i] = SvIdle]
    /\ UNCHANGED <<lockfiles, ld, lastSaved, logVars>>

(***************************************************************************)
(* PluginLock.load                                                         *)
(***************************************************************************)
Loaders == {"default", "raises_FileNotFoundError"}

LdCall(plugin, create, loader) ==
    /\ ld.pc = "idle"
    /\ ld' = [LdIdle EXCEPT !.pc = "load", !.plugin = plugin,
                            !.create = create, !.loader = loader,
                            !.before = lockfiles[PluginLockPath(plugin)]]
    /\ UNCHANGED <<lockfiles, sv, lastSaved, logVars>>

\* _load(): what open(self.path) and loader(lockfile) come to.
LoadOutcome(files, path, loader) ==
    IF ~files[path].exists \/ loader = "raises_FileNotFoundError"
    THEN [raised |-> TRUE, value |-> <<>>]
    ELSE [raised |-> FALSE, value |-> DefaultLoader(files[path].bytes)]

\* try: return _load()  except FileNotFoundError: if create: ... else raise
LdLoad ==
    /\ ld.pc = "load"
    /\ LET got == LoadOutcome(lockfiles, PluginLockPath(ld.plugin), ld.loader)
       IN  IF ~got.raised
           THEN ld' = [ld EXCEPT !.pc = "done", !.outcome = "returned",
                                 !.result = got.value]
           ELSE IF ld.create
                THEN ld' = [ld EXCEPT !.pc = "save"]
                ELSE ld' = [ld EXCEPT !.pc = "done",
                                      !.outcome = "FileNotFoundError"]
    /\ UNCHANGED <<lockfiles, sv, lastSaved, logVars>>

\* Variant of load that retries without saving.
LdSave_Skipped ==
    /\ ld.pc = "save"
    /\ ld' = [ld EXCEPT !.pc = "reload"]
    /\ UNCHANGED <<lockfiles, sv, lastSaved, logVars>>

\* self.save()
LdSave ==
    /\ ld.pc = "save"
    /\ lockfiles' = PluginLockSave(lockfiles, ld.plugin)
    /\ lastSaved' = [lastSaved EXCEPT ![PluginLockPath(ld.plugin)] = ld.plugin]
    /\ ld' = [ld EXCEPT !.pc = "reload"]
    /\ UNCHANGED <<sv, logVars>>

\* return _load(), now outside the try block
LdReload ==
    /\ ld.pc = "reload"
    /\ LET got == LoadOutcome(lockfiles, PluginLockPath(ld.plugin), ld.loader)
       IN  IF ~got.raised
           THEN ld' = [ld EXCEPT !.pc = "done", !.outcome = "returned",
                                 !.result = got.value]
           ELSE ld' = [ld EXCEPT !.pc = "done",
                                 !.outcome = "FileNotFoundError"]
    /\ UNCHANGED <<lockfiles, sv, lastSaved, logVars>>

\* The caller has the plugin or the exception.
LdReturn ==
    /\ ld.pc = "done"
    /\ ld' = LdIdle
    /\ UNCHANGED <<lockfiles, sv, lastSaved, logVars>>

(***************************************************************************)
(* Schedules of the lockfile service                                       *)
(***************************************************************************)
LocksQuiescent ==
    /\ ld.pc = "idle"
    /\ \A i \in Savers : sv[i].pc = "idle"

LocksStep ==
    \/ \E i \in Savers : SvCheck(i)
    \/ \E i \in Savers : SvWrite(i)
    \/ \E i \in Savers : SvReturn(i)
    \/ LdLoad
    \/ LdSave
    \/ LdReload
    \/ LdReturn

SeqSvCall ==
    /\ LocksQuiescent
    /\ \E i \in Savers, plugin \in ProjectPlugins, exists_ok \in BOOLEAN :
          SvCall(i, plugin, exists_ok)

SeqLdCall ==
    /\ LocksQuiescent
    /\ \E plugin \in ProjectPlugins, create \in BOOLEAN, loader \in Loaders :
          LdCall(plugin, create, loader)

\* The single-threaded schedule.
NextLocks == SeqSvCall \/ SeqLdCall \/ LocksStep

\* The plugins of the racing callers: one lock path, two definitions of it.
RacePlugins ==
    {p \in ProjectPlugins : p.variant = "v1" /\ p.definition["v2"] = "a"}

RaceSvCall ==
    \E i \in Savers, plugin \in RacePlugins, exists_ok \in BOOLEAN :
        SvCall(i, plugin, exists_ok)

RaceLdCall ==
    \E plugin \in RacePlugins, create \in BOOLEAN :
        LdCall(plugin, create, "default")

\* The racing schedule: the steps of concurrent callers interleave.
NextLocksRace == RaceSvCall \/ RaceLdCall \/ LocksStep

(***************************************************************************)
(* Specifications                                                          *)
(***************************************************************************)
NoLocks ==
    /\ lockfiles = [p \in LockPaths |-> Absent]
    /\ sv = [i \in Savers |-> SvIdle]
    /\ ld = LdIdle
    /\ lastSaved = [p \in LockPaths |-> NoPlugin]

NoLogs ==
    /\ fs = [p \in Paths |-> NoFile]
    /\ legacyDir = FALSE
    /\ clock = 1
    /\ lg = [r \in Runs |-> LgIdle]
    /\ rd = RdIdle
    /\ dl = DlIdle

\* The job log service, single-threaded and racing.
InitLogs == LogInit /\ NoLocks

SpecLogs == InitLogs /\ [][NextLogs]_vars

SpecLogsRace == InitLogs /\ [][NextLogsRace]_vars

\* The lockfile service, single-threaded and racing.
InitLocks == LockInit /\ NoLogs

SpecLocks == InitLocks /\ [][NextLocks]_vars

SpecLocksRace == InitLocks /\ [][NextLocksRace]_vars

(***************************************************************************)
(* Properties of PluginLockService.save and PluginLock.load                *)
(***************************************************************************)
\* C1: when PluginLockService.save returns, single-threaded: if a lockfile
\* was at the plugin's lock path when the call was made and exists_ok is
\* false, the call has failed with LockfileAlreadyExistsError carrying that
\* path and the plugin, and the file holds the bytes it held; otherwise the
\* call has succeeded and the file holds the plugin's serialized definition.
C1_SaveHonoursExistsOk ==
    \A i \in Savers :
        sv[i].pc = "done" =>
            LET path == PluginLockPath(sv[i].plugin)
            IN  IF sv[i].before.exists /\ ~sv[i].exists_ok
                THEN /\ sv[i].outcome = "LockfileAlreadyExistsError"
                     /\ sv[i].err = <<path, sv[i].plugin>>
                     /\ lockfiles[path] = sv[i].before
                ELSE /\ sv[i].outcome = "ok"
                     /\ lockfiles[path] = LockFile(LockBytes(sv[i].plugin))

\* A second save of the plugin a save has just locked, without exists_ok: it
\* has failed and the file still holds what the first save wrote.
C1_Witness ==
    \E i \in Savers :
        /\ sv[i].pc = "done"
        /\ ~sv[i].exists_ok
        /\ sv[i].outcome = "LockfileAlreadyExistsError"
        /\ lastSaved[PluginLockPath(sv[i].plugin)] = sv[i].plugin
        /\ lockfiles[PluginLockPath(sv[i].plugin)] =
               LockFile(LockBytes(sv[i].plugin))

\* What PluginLock.save() alone, then load(), leave and return for a plugin
\* whose lockfile is absent.
SaveThenLoad(plugin) ==
    LET files == PluginLockSave([p \in LockPaths |-> Absent], plugin)
        path  == PluginLockPath(plugin)
    IN  [file |-> files[path],
         value |-> LoadOutcome(files, path, "default").value]

\* C2: when PluginLock.load returns, single-threaded, from a call made with
\* the lockfile absent: with create=True the file on disk is the one save()
\* alone writes and (default loader) the plugin returned is the one save()
\* followed by load() returns; with create=False the call has failed with
\* FileNotFoundError and there is still no file.
C2_LoadCreate ==
    (ld.pc = "done" /\ ~ld.before.exists) =>
        LET path == PluginLockPath(ld.plugin)
        IN  IF ld.create
            THEN /\ lockfiles[path] = SaveThenLoad(ld.plugin).file
                 /\ ld.loader = "default" =>
                       /\ ld.outcome = "returned"
                       /\ ld.result = SaveThenLoad(ld.plugin).value
            ELSE /\ ld.outcome = "FileNotFoundError"
                 /\ lockfiles[path] = Absent

C2_Witness ==
    /\ ld.pc = "done"
    /\ ~ld.before.exists
    /\ ld.create
    /\ ld.loader = "default"
    /\ ld.outcome = "returned"
    /\ ld.result.pip_url = ld.plugin.definition[ld.plugin.variant]
    /\ lockfiles[PluginLockPath(ld.plugin)].exists

\* C9: under racing callers, save rejects a call only if the file existed
\* when that call checked and exists_ok was false, a call that passed the
\* check found no file or had exists_ok, and a lock path that was saved
\* holds the bytes of the save that came last.
C9_CheckThenWrite ==
    /\ \A i \in Savers :
          sv[i].outcome = "LockfileAlreadyExistsError" =>
              sv[i].existed /\ ~sv[i].exists_ok
    /\ \A i \in Savers :
          (sv[i].pc = "write" \/ sv[i].outcome = "ok") =>
              ~sv[i].existed \/ sv[i].exists_ok
    /\ \A p \in LockPaths :
          lastSaved[p] # NoPlugin =>
              lockfiles[p] = LockFile(LockBytes(lastSaved[p]))

\* Two callers save different definitions to one lock path that was absent
\* when each called, both without exists_ok: both passed the check, neither
\* was rejected and the file holds the later write.
C9_Witness ==
    /\ \A i \in Savers :
          /\ sv[i].pc = "done"
          /\ sv[i].outcome = "ok"
          /\ ~sv[i].exists_ok
          /\ ~sv[i].before.exists
          /\ ~sv[i].existed
    /\ PluginLockPath(sv[1].plugin) = PluginLockPath(sv[2].plugin)
    /\ LockBytes(sv[1].plugin) # LockBytes(sv[2].plugin)
    /\ lockfiles[PluginLockPath(sv[1].plugin)] =
           LockFile(LockBytes(sv[1].plugin))

\* C10: during and after PluginLock.load, single-threaded, for every loader:
\* a lockfile that existed when the call was made holds the bytes it held,
\* and load(create=False) leaves the lock path as it was.
C10_LoadKeepsExistingFile ==
    (ld.pc # "idle" /\ (ld.before.exists \/ ~ld.create)) =>
        lockfiles[PluginLockPath(ld.plugin)] = ld.before

(***************************************************************************)
(* Properties of JobLoggingService                                         *)
(***************************************************************************)
\* The log whose creation time is largest.
LastCreated ==
    CHOOSE p \in Paths :
        /\ Exists(fs, p)
        /\ \A q \in Paths : Exists(fs, q) => fs[q].created <= fs[p].created

\* C3: single-threaded, after any creations of and writes to logs:
\* get_all_logs returns exactly the log files on disk, in descending order
\* of creation time, and a get_latest_log that returns content returns the
\* content of the log created last.
C3_OrderedByCreationTime ==
    LET logs == get_all_logs(fs, legacyDir)
    IN  /\ SeqToSet(logs) = {p \in Paths : Exists(fs, p)}
        /\ \A i, j \in 1..Len(logs) :
              i < j => fs[logs[i]].created > fs[logs[j]].created
        /\ (rd.pc = "done" /\ rd.op = "get_latest_log"
                /\ rd.outcome = "returned") =>
              rd.result = ReadAll(fs, LastCreated)

\* C4: under racing callers, get_latest_log and get_downloadable_log end in
\* MissingJobLogException, and in nothing else, whenever the scan found no
\* log or the most recent log it found was gone when the call came to it.
C4_MissingLogOnly ==
    (rd.pc = "done" /\ (rd.globbed = <<>> \/ rd.gone)) =>
        rd.outcome = "MissingJobLogException"

\* What the caller's block ended in, as the caller of the scope sees it if
\* create_log adds nothing of its own.
BlockOutcome(r) == IF lg[r].raised = "none" THEN "ok" ELSE lg[r].raised

\* C5: whenever the log path could not be opened for writing, be it the
\* directory or the file that the file system refused, create_log has
\* yielded the discard sink, once, and has raised nothing of its own.
C5_NeverRaisesWhenCannotOpen ==
    \A r \in Runs :
        (lg[r].cannotOpen /\ lg[r].pc # "idle") =>
            /\ lg[r].sink = "devnull"
            /\ lg[r].yields = 1
            /\ lg[r].pc = "done" => lg[r].outcome = BlockOutcome(r)

\* C6: when a call returns, single-threaded, with at least one log on disk:
\* get_latest_log has failed with SizeThresholdJobLogException if the most
\* recent log (the first of get_all_logs) is larger than MAX_FILE_SIZE and
\* has returned its whole content otherwise; get_downloadable_log has
\* returned its path whatever its size.
C6_SizeThreshold ==
    LET logs == get_all_logs(fs, legacyDir)
    IN  (rd.pc = "done" /\ logs # <<>>) =>
            IF rd.op = "get_latest_log"
            THEN IF fs[logs[1]].size > MAX_FILE_SIZE
                 THEN rd.outcome = "SizeThresholdJobLogException"
                 ELSE /\ rd.outcome = "returned"
                      /\ rd.result = ReadAll(fs, logs[1])
            ELSE /\ rd.outcome = "returned"
                 /\ rd.result = logs[1]

\* A log of exactly MAX_FILE_SIZE bytes is returned whole.
C6_Witness ==
    /\ rd.pc = "done"
    /\ rd.op = "get_latest_log"
    /\ rd.outcome = "returned"
    /\ rd.result.bytes = MAX_FILE_SIZE

\* C7: when delete_all_logs returns without error, single-threaded, no log
\* file is left in the primary or the legacy directory and get_all_logs
\* returns the empty list; with no log files it returns without error.
C7_DeleteAllLeavesNone ==
    /\ (dl.pc = "done" /\ dl.outcome = "ok") =>
          /\ \A p \in Paths : ~Exists(fs, p)
          /\ get_all_logs(fs, legacyDir) = <<>>
    /\ (dl.pc = "done" /\ dl.found = <<>>) => dl.outcome = "ok"

\* Logs of both directories were found and deleted.
C7_Witness ==
    /\ dl.pc = "done"
    /\ dl.outcome = "ok"
    /\ \E i, j \in 1..Len(dl.found) :
          dl.found[i] \in PrimaryPaths /\ dl.found[j] \in LegacyPaths
    /\ \A p \in Paths : ~Exists(fs, p)

\* C8: once the real log file was opened and yielded, the scope ends in
\* what the caller's block ended in, has yielded exactly one sink, and has
\* closed every handle it opened.
C8_ErrorsPropagateUnmodified ==
    \A r \in Runs :
        (lg[r].pc = "done" /\ lg[r].sink = "file") =>
            /\ lg[r].outcome = BlockOutcome(r)
            /\ lg[r].yields = 1
            /\ lg[r].open = {}

=============================================================================
